---- MODULE Spec2Model ----
(***************************************************************************)
(* Model of stocktinker/stock.py: class Stock, its disk cache of vendor    *)
(* CSV exports, the lazily memoized report tables, the ratio derivation    *)
(* pipeline and the valuation accessors.                                   *)
(*                                                                         *)
(* Numbers are fixed-point hundredths (1.10 is 110); a float NaN is the    *)
(* value NaN.  A pandas DataFrame is a record [index, cols]: index is the  *)
(* sequence of row dates (day numbers), cols maps a column key to the      *)
(* sequence of its values.  A column key is a record [n, c, u]: the slug   *)
(* "earnings-per-share-usd" is K("earnings-per-share", "usd", ""), and     *)
(* "shares-mil" is K("shares", "", "mil").                                 *)
(***************************************************************************)
EXTENDS Integers, Sequences, FiniteSets, TLC

VARIABLES now, files, vendor, client, self, hist, last

vars == <<now, files, vendor, client, self, hist, last>>

(***************************************************************************)
(* Bounds of the model.                                                    *)
(***************************************************************************)
MaxTicks == 2
MaxLog == 2
MaxCount == 2

(***************************************************************************)
(* Program constants.                                                      *)
(***************************************************************************)
ReportLifetime == 86800
PriceLifetime == 40000
MilFactor == 1000000
NoPeSentinel == -100

report_types == <<"income", "cashflow", "balancesheet", "ratios", "price">>

Kinds == {report_types[i] : i \in DOMAIN report_types}

Symbols == {"AAA", "BBB"}

(***************************************************************************)
(* Floating point values.                                                  *)
(***************************************************************************)
Num(n) == [nan |-> FALSE, v |-> n]
NaN == [nan |-> TRUE, v |-> 0]

Abs(n) == IF n < 0 THEN -n ELSE n

RECURSIVE Gcd(_, _)
Gcd(a, b) == IF b = 0 THEN a ELSE Gcd(b, a % b)

\* a / b on integers, rounded towards zero
Quot(a, b) ==
    LET q == Abs(a) \div Abs(b)
    IN IF (a < 0) = (b < 0) THEN q ELSE -q

\* x / y.  A division by zero gives inf or nan in numpy; both are NaN here.
FDiv(x, y) ==
    IF x.nan \/ y.nan \/ y.v = 0 THEN NaN
    ELSE LET g == Gcd(Abs(x.v), Abs(y.v))
         IN Num(Quot((x.v \div g) * 100, y.v \div g))

FAdd(x, y) == IF x.nan \/ y.nan THEN NaN ELSE Num(x.v + y.v)

\* x * k for an integer k
FScale(x, k) == IF x.nan THEN NaN ELSE Num(x.v * k)

\* Python's  a > b  and  a < b  on floats: false when either is nan
FGt(x, y) == ~x.nan /\ ~y.nan /\ x.v > y.v
FLt(x, y) == ~x.nan /\ ~y.nan /\ x.v < y.v

(***************************************************************************)
(* Column keys and tables.                                                 *)
(***************************************************************************)
K(n, c, u) == [n |-> n, c |-> c, u |-> u]
Col(n) == K(n, "", "")
CurCol(n, c) == K(n, c, "")

EmptyDF == [index |-> <<>>, cols |-> <<>>]

\* DataFrame.empty
IsEmpty(df) == df.index = <<>> \/ DOMAIN df.cols = {}

\* key in df
Has(df, key) == key \in DOMAIN df.cols

\* df[key] = series, for a series on df's own index
SetCol(df, key, series) ==
    [df EXCEPT !.cols = [k \in DOMAIN df.cols \cup {key} |->
                            IF k = key THEN series ELSE df.cols[k]]]

\* the position of date d in an index, 0 when absent
RECURSIVE PosOf(_, _)
PosOf(index, d) ==
    IF index = <<>> THEN 0
    ELSE IF index[Len(index)] = d THEN Len(index)
    ELSE PosOf(SubSeq(index, 1, Len(index) - 1), d)

\* pandas aligns an assigned series to the frame's index; dates the series
\* lacks become NaN
Align(srcIndex, series, index) ==
    [i \in 1..Len(index) |->
        IF PosOf(srcIndex, index[i]) = 0 THEN NaN
        ELSE series[PosOf(srcIndex, index[i])]]

\* Series.pct_change(): missing values are padded with the last valid one,
\* then  cur / prev - 1
RECURSIVE Pad(_)
Pad(s) ==
    IF Len(s) <= 1 THEN s
    ELSE LET p == Pad(SubSeq(s, 1, Len(s) - 1))
         IN Append(p, IF s[Len(s)].nan THEN p[Len(p)] ELSE s[Len(s)])

pct_change(s) ==
    LET p == Pad(s)
    IN [i \in 1..Len(s) |->
           IF i = 1 THEN NaN
           ELSE FDiv(FAdd(p[i], FScale(p[i - 1], -1)), p[i - 1])]

SDiv(a, b) == [i \in 1..Len(a) |-> FDiv(a[i], b[i])]
SAdd(a, b) == [i \in 1..Len(a) |-> FAdd(a[i], b[i])]

(***************************************************************************)
(* The vendor's exports.  A report export has one row per metric (keyed by *)
(* the slug of its label) and one column per period; a price export has    *)
(* one row per day, newest first.  "empty" is a file pandas reads as       *)
(* EmptyDataError, "malformed" one whose parsing raises anything else.     *)
(***************************************************************************)
Nums(s) == [i \in 1..Len(s) |-> Num(s[i])]
NaNs(n) == [i \in 1..n |-> NaN]

Periods == <<0, 365>>

RatiosCommon ==
    (K("book-value-per-share", "usd", "") :> Nums(<<1000, 1200>>)) @@
    (K("revenue", "usd", "mil") :> Nums(<<1000, 1200>>)) @@
    (K("operating-cash-flow", "usd", "mil") :> Nums(<<500, 600>>)) @@
    (K("return-on-equity", "", "") :> Nums(<<1500, 1600>>))

Eps == K("earnings-per-share", "usd", "") :> Nums(<<100, 110>>)
LossEps == K("earnings-per-share", "usd", "") :> Nums(<<-1000, -2200>>)
Shares == K("shares", "", "mil") :> Nums(<<200, 200>>)
NoDividends == K("dividends", "usd", "") :> NaNs(2)
Dividends == K("dividends", "usd", "") :> Nums(<<50, 60>>)

OkExport(rows) == [status |-> "ok", periods |-> Periods, rows |-> rows]

Export(id) ==
    CASE id = "ratios_full" -> OkExport(RatiosCommon @@ Eps @@ Shares @@ NoDividends)
      [] id = "ratios_dividends" -> OkExport(RatiosCommon @@ Eps @@ Shares @@ Dividends)
      [] id = "ratios_loss" -> OkExport(RatiosCommon @@ LossEps @@ Shares @@ NoDividends)
      [] id = "ratios_no_shares" -> OkExport(RatiosCommon @@ Eps @@ NoDividends)
      [] id = "ratios_no_eps" -> OkExport(RatiosCommon @@ Shares @@ NoDividends)
      [] id = "bs_full" ->
            OkExport((K("short-term-debt", "", "") :> Nums(<<2000, 3000>>)) @@
                     (K("long-term-debt", "", "") :> Nums(<<8000, 9000>>)))
      [] id = "bs_no_long" ->
            OkExport(K("short-term-debt", "", "") :> Nums(<<2000, 3000>>))
      [] id = "bs_no_short" ->
            OkExport(K("long-term-debt", "", "") :> Nums(<<8000, 9000>>))
      [] id = "statement" ->
            OkExport(K("revenue", "", "") :> Nums(<<1000, 1200>>))
      [] id = "prices" ->
            [status |-> "ok",
             days |-> <<[date |-> 372, close |-> Num(2500)],
                        [date |-> 360, close |-> Num(2200)],
                        [date |-> 0, close |-> Num(1000)]>>]
      [] id = "empty" -> [status |-> "empty"]
      [] OTHER -> [status |-> "malformed"]

Exports(kind) ==
    CASE kind = "ratios" -> {"ratios_full", "ratios_dividends", "ratios_loss",
                             "ratios_no_shares", "ratios_no_eps",
                             "empty", "malformed"}
      [] kind = "balancesheet" -> {"bs_full", "bs_no_long", "bs_no_short",
                                   "empty", "malformed"}
      [] kind = "price" -> {"prices", "empty", "malformed"}
      [] OTHER -> {"statement", "empty", "malformed"}

(***************************************************************************)
(* pd.read_csv and the clean-up of _load_report_csv_to_df.                 *)
(***************************************************************************)
AllNaN(s) == \A i \in 1..Len(s) : s[i].nan

\* df.dropna(axis=1, how='all')
DropAllNaN(df) ==
    [df EXCEPT !.cols = [k \in {c \in DOMAIN df.cols : ~AllNaN(df.cols[c])} |->
                            df.cols[k]]]

\* key.endswith("-mil"): df[key[:-4]] = 1e6 * df[key]; df.drop(key)
ApplyUnits(df) ==
    LET base(k) == K(k.n, k.c, "")
        keys == {IF k.u = "mil" THEN base(k) ELSE k : k \in DOMAIN df.cols}
        src(k) == IF K(k.n, k.c, "mil") \in DOMAIN df.cols
                  THEN [i \in 1..Len(df.index) |->
                           FScale(df.cols[K(k.n, k.c, "mil")][i], MilFactor)]
                  ELSE df.cols[k]
    IN [df EXCEPT !.cols = [k \in keys |-> src(k)]]

\* the try block of _load_report_csv_to_df: [exc, df]
ParseReport(raw) ==
    IF raw.status = "empty" THEN [exc |-> "EmptyDataError", df |-> EmptyDF]
    ELSE IF raw.status # "ok" THEN [exc |-> "Exception", df |-> EmptyDF]
    ELSE [exc |-> "none",
          df |-> ApplyUnits(DropAllNaN([index |-> raw.periods, cols |-> raw.rows]))]

\* df.sort_index(ascending=True) on the rows of a price export
RECURSIVE SortDays(_)
SortDays(days) ==
    IF days = <<>> THEN <<>>
    ELSE LET i == CHOOSE j \in 1..Len(days) :
                      \A k \in 1..Len(days) : days[j].date <= days[k].date
             rest == [k \in 1..(Len(days) - 1) |->
                         IF k < i THEN days[k] ELSE days[k + 1]]
         IN <<days[i]>> \o SortDays(rest)

\* the try block of _load_price_csv_to_df: [exc, df]
ParsePrice(raw) ==
    IF raw.status = "empty" THEN [exc |-> "EmptyDataError", df |-> EmptyDF]
    ELSE IF raw.status # "ok" THEN [exc |-> "Exception", df |-> EmptyDF]
    ELSE LET days == SortDays(raw.days)
         IN [exc |-> "none",
             df |-> [index |-> [i \in 1..Len(days) |-> days[i].date],
                     cols |-> (Col("Close") :>
                                  [i \in 1..Len(days) |-> days[i].close])]]

(***************************************************************************)
(* The machine state threaded through one call: the Stock object, the      *)
(* cache directory, the clock, what the network answers during the call,   *)
(* and the trace of what the call did.  Every operation returns            *)
(* [st, exc, val]: the state it leaves, the exception it raised ("none"    *)
(* when it returned) and the value it returned.                            *)
(***************************************************************************)
None == [none |-> TRUE]
Some(x) == [none |-> FALSE, val |-> x]
NoCurrency == "None"

Ok(st, v) == [st |-> st, exc |-> "none", val |-> v]
Raise(st, e) == [st |-> st, exc |-> e, val |-> None]

\* name the outcome r of a call for what follows it
Bind(r, F(_)) == F(r)

Bump(n) == IF n < MaxCount THEN n + 1 ELSE n

\* record that the call did e ("download", "parse", "assign", "check") on k
Emit(st, e, k, a) ==
    [st EXCEPT !.ev = Append(@, [e |-> e, k |-> k, a |-> a]),
               !.hist = IF e \in {"download", "parse", "assign"}
                        THEN [@ EXCEPT ![e][k] = Bump(@)]
                        ELSE @]

NoFile == [exists |-> FALSE, mtime |-> 0, content |-> ""]

report_path(obj, report_type) == <<obj.symbol, report_type>>

slot == [income |-> "_income", cashflow |-> "_cashflow",
         balancesheet |-> "_balancesheet", ratios |-> "_ratios",
         price |-> "_historic_prices"]

\* self._<kind> = df
Assign(st, kind, df) ==
    Emit([st EXCEPT !.self[slot[kind]] = Some(df)], "assign", kind, 0)

\* a variant that assigns the list instead of appending to it
LogOnly(st, msg, arg) ==
    [st EXCEPT !.self.error_log = <<[msg |-> msg, arg |-> arg]>>]

\* self.error_log.append(msg.format(arg))
LogError(st, msg, arg) ==
    [st EXCEPT !.self.error_log = Append(@, [msg |-> msg, arg |-> arg])]

\* a variant that never accepts the file on disk
AlwaysStale(st, csv_path, cache_lifetime) == FALSE

\* the file exists: the age computed on line 518 sets a local that is never read
_csv_cache_valid(st, csv_path, cache_lifetime) ==
    IF ~st.files[csv_path].exists THEN FALSE
    ELSE TRUE

\* urlretrieve(url, path): the export is written, or the request fails
urlretrieve(st, kind) ==
    IF st.net[kind] = "fail" THEN Raise(st, "URLError")
    ELSE Ok(Emit([st EXCEPT !.files[report_path(st.self, kind)] =
                      [exists |-> TRUE, mtime |-> st.now, content |-> st.net[kind]]],
                 "download", kind, 0), None)

_download_morningstar_data(st, report_type) == urlretrieve(st, report_type)

\* the try block of lines 566-592 on the file as it is on disk
read_report(st, report_type, file) ==
    Bind(Emit(st, "parse", report_type, st.now - file.mtime), LAMBDA st1 :
    Bind(ParseReport(Export(file.content)), LAMBDA p :
        CASE p.exc = "none" -> Ok(st1, p.df)
          [] p.exc = "EmptyDataError" ->
                 Ok(LogError(st1, "No {} report found", report_type), EmptyDF)
          [] OTHER ->
                 Ok(LogError(st1, "Unable to process report: {}", report_type),
                    EmptyDF)))

_load_report_csv_to_df(st, report_type) ==
    Bind(IF ~_csv_cache_valid(st, report_path(st.self, report_type), ReportLifetime)
         THEN _download_morningstar_data(st, report_type)
         ELSE Ok(st, None),
         LAMBDA got :
            IF got.exc # "none" THEN got
            ELSE read_report(got.st, report_type,
                             got.st.files[report_path(st.self, report_type)]))

\* the income, cashflow and balancesheet properties
Statement(st, kind) ==
    IF ~st.self[slot[kind]].none THEN Ok(st, st.self[slot[kind]].val)
    ELSE Bind(_load_report_csv_to_df(st, kind), LAMBDA r :
            IF r.exc # "none" THEN r
            ELSE Ok(Assign(r.st, kind, r.val), r.val))

income(st) == Statement(st, "income")
cashflow(st) == Statement(st, "cashflow")
balancesheet(st) == Statement(st, "balancesheet")

(***************************************************************************)
(* The ratio derivation pipeline.  Inside it self.ratios and self.currency *)
(* read the table that line 403 has already stored in self._ratios.        *)
(***************************************************************************)
R(st) == st.self._ratios.val

SetR(st, key, series) ==
    [st EXCEPT !.self._ratios = Some(SetCol(@.val, key, series))]

\* the currency property on a loaded table: the suffix of the
\* earnings-per-share-<currency> column, None without one
currency_of(df) ==
    LET eps == {k \in DOMAIN df.cols : k.n = "earnings-per-share" /\ k.c # ""}
    IN IF eps = {} THEN NoCurrency ELSE (CHOOSE k \in eps : TRUE).c

Cur(st, n) == CurCol(n, currency_of(R(st)))

\* run F on the state r leaves, unless r raised
Then(r, F(_)) == IF r.exc # "none" THEN r ELSE F(r.st)

\* df[key] for each key of needs, in order: KeyError on the first one missing
Missing(df, needs) == \E i \in 1..Len(needs) : ~Has(df, needs[i])

\* self._ratios[key] = series, where the right-hand side reads the columns
\* needs of self._ratios
Put(st, needs, key, series) ==
    IF Missing(R(st), needs) THEN Raise(st, "KeyError")
    ELSE Ok(SetR(st, key, series), None)

RCol(st, key) == R(st).cols[key]

add_book_value_ps_growth(st) ==
    LET src == Cur(st, "book-value-per-share")
    IN Put(st, <<src>>, Col("book-value-ps-growth"), pct_change(RCol(st, src)))

add_earnings_ps_growth(st) ==
    LET src == Cur(st, "earnings-per-share")
    IN Put(st, <<src>>, Col("earnings-ps-growth"), pct_change(RCol(st, src)))

add_revenue_ps_growth(st) ==
    LET src == Cur(st, "revenue")
        shares == Col("shares")
        ps(s) == SDiv(RCol(s, src), RCol(s, shares))
    IN Then(Put(st, <<src, shares>>, Cur(st, "revenue-per-share"), ps(st)),
            LAMBDA s : Put(s, <<src, shares>>, Col("revenue-ps-growth"),
                           pct_change(ps(s))))

add_operating_cashflow_ps_growth(st) ==
    LET src == Cur(st, "operating-cash-flow")
        shares == Col("shares")
        ps(s) == SDiv(RCol(s, src), RCol(s, shares))
    IN Then(Put(st, <<src, shares>>, Cur(st, "operating-cashflow-per-share"), ps(st)),
            LAMBDA s : Put(s, <<src, shares>>, Col("operating-cashflow-ps-growth"),
                           pct_change(ps(s))))

\* self.balancesheet[key], aligned to the index of self._ratios (the exports
\* of one symbol cover the same periods)
BsCol(st, bs, key) == Align(bs.index, bs.cols[key], R(st).index)

\* self._ratios[key] = an expression over self.balancesheet[bsNeeds] and
\* self._ratios[needs]; the balance sheet is read first
PutBs(st, bsNeeds, needs, key, series) ==
    Bind(balancesheet(st), LAMBDA b :
        IF b.exc # "none" THEN b
        ELSE IF Missing(b.val, bsNeeds) THEN Raise(b.st, "KeyError")
        ELSE Put(b.st, needs, key, series))

Bs(st) == st.self._balancesheet.val

add_long_term_debt_ps_growth(st) ==
    LET ltd == Col("long-term-debt")
        shares == Col("shares")
        ps(s) == SDiv(BsCol(s, Bs(s), ltd), RCol(s, shares))
    IN Bind(balancesheet(st), LAMBDA b :
       IF b.exc # "none" THEN b
       ELSE IF ~Has(b.val, ltd) THEN Ok(b.st, None)
       ELSE Then(Put(b.st, <<>>, ltd, BsCol(b.st, b.val, ltd)),
            LAMBDA s1 : Then(Put(s1, <<shares>>, Col("long-term-debt-ps-growth"),
                                 pct_change(ps(s1))),
            LAMBDA s2 : Put(s2, <<shares>>, Col("long-term-debt-ps"), ps(s2)))))

add_short_term_debt_ps_growth(st) ==
    LET std == Col("short-term-debt")
        shares == Col("shares")
        ps(s) == SDiv(BsCol(s, Bs(s), std), RCol(s, shares))
    IN Then(PutBs(st, <<std>>, <<>>, std, BsCol(st, balancesheet(st).val, std)),
       LAMBDA s1 : Then(PutBs(s1, <<std>>, <<shares>>, Col("short-term-debt-ps-growth"),
                              pct_change(ps(s1))),
       LAMBDA s2 : PutBs(s2, <<std>>, <<shares>>, Col("short-term-debt-ps"), ps(s2))))

add_total_debt(st) ==
    LET std == Col("short-term-debt")
        ltd == Col("long-term-debt")
        shares == Col("shares")
        total == Cur(st, "total-debt")
    IN Then(PutBs(st, <<std, ltd>>, <<>>, total,
                  SAdd(BsCol(st, balancesheet(st).val, std),
                       BsCol(st, balancesheet(st).val, ltd))),
       LAMBDA s1 : Then(Put(s1, <<total, shares>>, Cur(s1, "total-debt-per-share"),
                            SDiv(RCol(s1, total), RCol(s1, shares))),
       LAMBDA s2 : Put(s2, <<total>>, Col("total-debt-growth"),
                       pct_change(RCol(s2, total)))))

add_debt_ratios(st) ==
    LET tdps == Cur(st, "total-debt-per-share")
        eps == Cur(st, "earnings-per-share")
        bvps == Cur(st, "book-value-per-share")
    IN Then(Put(st, <<tdps, eps>>, Col("debt-per-earnings"),
                SDiv(RCol(st, tdps), RCol(st, eps))),
       LAMBDA s : Put(s, <<tdps, bvps>>, Col("debt-per-bookvalue"),
                      SDiv(RCol(s, tdps), RCol(s, bvps))))

add_dividends_ps_growth(st) ==
    Bind(IF Has(R(st), Cur(st, "dividends"))
         THEN SetR(st, Col("dividends-ps-growth"),
                   pct_change(RCol(st, Cur(st, "dividends"))))
         ELSE st,
         LAMBDA first :
            Put(first, <<Col("shares")>>, Col("dividends-ps-growth"),
                [i \in 1..Len(R(first).index) |->
                    FScale(RCol(first, Col("shares"))[i], 0)]))

\* the has_dividends property
has_dividends(st) == Has(R(st), Cur(st, "dividends"))

(***************************************************************************)
(* The ratios and historic_prices properties.  They call each other:       *)
(* _download_morningstar_pricedata reads self.currency, which reads        *)
(* self.ratios, whose add_pe step reads self.historic_prices.              *)
(***************************************************************************)
RECURSIVE ratios(_)

\* the currency property
currency(st) ==
    Bind(ratios(st), LAMBDA r :
        IF r.exc # "none" THEN r ELSE Ok(r.st, currency_of(r.val)))

\* any exception inside the try block becomes MorningStarPriceError; the
\* currency None has no upper()
_download_morningstar_pricedata(st) ==
    Bind(currency(st), LAMBDA c :
        IF c.exc # "none" THEN Raise(c.st, "MorningStarPriceError")
        ELSE IF c.val = NoCurrency THEN Raise(c.st, "MorningStarPriceError")
        ELSE Bind(urlretrieve(c.st, "price"), LAMBDA u :
                IF u.exc # "none" THEN Raise(u.st, "MorningStarPriceError") ELSE u))

\* the except clauses on lines 543-546 format report_type, a name this
\* function does not have: the handler itself raises NameError
read_price(st, file) ==
    Bind(Emit(st, "parse", "price", st.now - file.mtime), LAMBDA st1 :
    Bind(ParsePrice(Export(file.content)), LAMBDA p :
        IF p.exc = "none" THEN Ok(st1, p.df) ELSE Raise(st1, "NameError")))

_load_price_csv_to_df(st) ==
    Bind(IF ~_csv_cache_valid(st, report_path(st.self, "price"), PriceLifetime)
         THEN _download_morningstar_pricedata(st)
         ELSE Ok(st, None),
         LAMBDA got :
            IF got.exc = "MorningStarPriceError"
            THEN Ok(LogError(got.st, "Unable to load price data", ""), EmptyDF)
            ELSE read_price(got.st, got.st.files[report_path(st.self, "price")]))

historic_prices(st) ==
    IF ~st.self._historic_prices.none THEN Ok(st, st.self._historic_prices.val)
    ELSE Bind(_load_price_csv_to_df(st), LAMBDA r :
            IF r.exc # "none" THEN r
            ELSE Ok(Assign(r.st, "price", r.val), r.val))

\* index.get_loc(d, method='nearest'): the position of the date closest to d,
\* the later one of two equally close
Nearest(index, d) ==
    CHOOSE j \in 1..Len(index) :
        \A k \in 1..Len(index) :
            \/ Abs(index[j] - d) < Abs(index[k] - d)
            \/ Abs(index[j] - d) = Abs(index[k] - d) /\ index[j] >= index[k]

\* line 482 copies the earnings column into pe; the loop then overwrites it
\* row by row, reading self.historic_prices on every row
add_pe(st) ==
    LET eps == Cur(st, "earnings-per-share")
        close == Col("Close")
    IN Then(Put(st, <<eps>>, Col("pe"), RCol(st, eps)),
       LAMBDA s : Bind(historic_prices(s), LAMBDA h :
                     IF h.exc # "none" THEN h
                     ELSE IF h.val.index = <<>> THEN Raise(h.st, "IndexError")
                     ELSE IF ~Has(h.val, close) THEN Raise(h.st, "KeyError")
                     ELSE Ok(SetR(h.st, Col("pe"),
                                [i \in 1..Len(R(h.st).index) |->
                                    FDiv(h.val.cols[close][Nearest(h.val.index,
                                                                   R(h.st).index[i])],
                                         RCol(h.st, eps)[i])]),
                             None)))

\* lines 414-415: fillna(0) returns a copy that is dropped
fillna_dividends(st) == Ok(st, None)

pipeline == <<"add_book_value_ps_growth", "add_earnings_ps_growth",
              "add_revenue_ps_growth", "add_operating_cashflow_ps_growth",
              "add_long_term_debt_ps_growth", "add_short_term_debt_ps_growth",
              "add_total_debt", "add_debt_ratios", "add_pe",
              "fillna_dividends", "add_dividends_ps_growth">>

Step(name, st) ==
    CASE name = "add_book_value_ps_growth" -> add_book_value_ps_growth(st)
      [] name = "add_earnings_ps_growth" -> add_earnings_ps_growth(st)
      [] name = "add_revenue_ps_growth" -> add_revenue_ps_growth(st)
      [] name = "add_operating_cashflow_ps_growth" -> add_operating_cashflow_ps_growth(st)
      [] name = "add_long_term_debt_ps_growth" -> add_long_term_debt_ps_growth(st)
      [] name = "add_short_term_debt_ps_growth" -> add_short_term_debt_ps_growth(st)
      [] name = "add_total_debt" -> add_total_debt(st)
      [] name = "add_debt_ratios" -> add_debt_ratios(st)
      [] name = "add_pe" -> add_pe(st)
      [] name = "fillna_dividends" -> fillna_dividends(st)
      [] name = "add_dividends_ps_growth" -> add_dividends_ps_growth(st)

RECURSIVE RunSteps(_, _)
RunSteps(st, steps) ==
    IF steps = <<>> THEN Ok(st, None)
    ELSE Then(Step(Head(steps), st), LAMBDA s : RunSteps(s, Tail(steps)))

ratios(st) ==
    IF ~st.self._ratios.none THEN Ok(st, st.self._ratios.val)
    ELSE Bind(_load_report_csv_to_df(st, "ratios"), LAMBDA l :
            IF l.exc # "none" THEN l
            ELSE Bind(Assign(l.st, "ratios", l.val), LAMBDA s0 :
                    IF IsEmpty(l.val) THEN Ok(s0, l.val)
                    ELSE Then(RunSteps(s0, pipeline), LAMBDA s : Ok(s, R(s)))))

(***************************************************************************)
(* Growth estimates and the valuation accessors.                           *)
(***************************************************************************)
revenue_growth_log_shift == 2

\* 1000 * ln(k) for k = 1, 2, ...
LnMilli == <<0, 693, 1099, 1386, 1609, 1792, 1946, 2079>>

\* Series.dropna()
RECURSIVE DropNa(_)
DropNa(s) ==
    IF s = <<>> THEN <<>>
    ELSE IF Head(s).nan THEN DropNa(Tail(s)) ELSE <<Head(s)>> \o DropNa(Tail(s))

RECURSIVE SumTo(_, _)
SumTo(f, n) == IF n = 0 THEN 0 ELSE f[n] + SumTo(f, n - 1)

\* np.average refuses weights that sum to zero, as those of no rows do
_get_average_growth_rate(st, key) ==
    Bind(ratios(st), LAMBDA r :
       IF r.exc # "none" THEN r
       ELSE IF ~Has(r.val, key) THEN Raise(r.st, "KeyError")
       ELSE LET average_df == DropNa(r.val.cols[key])
                n == Len(average_df)
                weights == [i \in 1..n |-> LnMilli[i - 1 + revenue_growth_log_shift]]
                total == SumTo(weights, n)
            IN IF total = 0 THEN Raise(r.st, "ZeroDivisionError")
               ELSE Ok(r.st, Num(Quot(SumTo([i \in 1..n |->
                                                weights[i] * average_df[i].v], n),
                                      total))))

estimated_eps_growth(st) == _get_average_growth_rate(st, Col("earnings-ps-growth"))
estimated_revenue_growth(st) == _get_average_growth_rate(st, Col("revenue-ps-growth"))
estimated_bookvalue_growth(st) == _get_average_growth_rate(st, Col("book-value-ps-growth"))
estimated_operational_cashflow_growth(st) ==
    _get_average_growth_rate(st, Col("operating-cashflow-ps-growth"))

\* sorted(s) for a sequence of integers
RECURSIVE SortInts(_)
SortInts(s) ==
    IF s = <<>> THEN <<>>
    ELSE LET i == CHOOSE j \in 1..Len(s) : \A k \in 1..Len(s) : s[j] <= s[k]
         IN <<s[i]>> \o SortInts([k \in 1..(Len(s) - 1) |->
                                     IF k < i THEN s[k] ELSE s[k + 1]])

\* round(np.median(<<a, b, c, d>>), 2): the mean of the two middle values,
\* a half rounded to the even hundredth
MedianRounded(s) ==
    LET o == SortInts(s)
        twice == o[2] + o[3]
        lo == (twice - (twice % 2)) \div 2
    IN IF twice % 2 = 0 THEN lo
       ELSE IF lo % 2 = 0 THEN lo ELSE lo + 1

estimated_growth(st) ==
    IF ~st.self._estimated_growth.none THEN Ok(st, st.self._estimated_growth.val)
    ELSE Bind(estimated_eps_growth(st), LAMBDA a :
         IF a.exc # "none" THEN a ELSE
         Bind(estimated_revenue_growth(a.st), LAMBDA b :
         IF b.exc # "none" THEN b ELSE
         Bind(estimated_bookvalue_growth(b.st), LAMBDA c :
         IF c.exc # "none" THEN c ELSE
         Bind(estimated_operational_cashflow_growth(c.st), LAMBDA d :
         IF d.exc # "none" THEN d ELSE
         Bind(Num(MedianRounded(<<a.val.v, b.val.v, c.val.v, d.val.v>>)), LAMBDA g :
         Ok([d.st EXCEPT !.self._estimated_growth = Some(g)], g))))))

\* Python's max(series) and min(a, b)
RECURSIVE PyMax(_)
PyMax(s) ==
    IF Len(s) = 1 THEN s[1]
    ELSE LET m == PyMax(SubSeq(s, 1, Len(s) - 1))
         IN IF FGt(s[Len(s)], m) THEN s[Len(s)] ELSE m

RECURSIVE PyMinSeq(_)
PyMinSeq(s) ==
    IF Len(s) = 1 THEN s[1]
    ELSE LET m == PyMinSeq(SubSeq(s, 1, Len(s) - 1))
         IN IF FLt(s[Len(s)], m) THEN s[Len(s)] ELSE m

PyMin(a, b) == IF FLt(b, a) THEN b ELSE a

target_pe(st) ==
    IF ~st.self._target_pe.none THEN Ok(st, st.self._target_pe.val)
    ELSE Bind(ratios(st), LAMBDA r :
            IF r.exc # "none" THEN r
            ELSE IF ~Has(r.val, Col("pe")) THEN Ok(r.st, Num(NoPeSentinel))
            ELSE Bind(estimated_growth(r.st), LAMBDA g :
                 IF g.exc # "none" THEN g
                 ELSE Bind(PyMin(FScale(g.val, 200), PyMax(R(g.st).cols[Col("pe")])),
                           LAMBDA v :
                              Ok([g.st EXCEPT !.self._target_pe = Some(v)], v))))

\* the target_pe setter
set_target_pe(st, value) ==
    Ok([st EXCEPT !.self._target_pe = Some(value), !.hist.setter = TRUE], None)

(***************************************************************************)
(* Filters and the cache directory.                                        *)
(***************************************************************************)
\* a filter object: its name and what its check answers for this stock
RECURSIVE CheckFilters(_, _)
CheckFilters(st, fs) ==
    IF fs = <<>> THEN Ok(st, TRUE)
    ELSE Bind(Emit(st, "check", Head(fs).name, 0), LAMBDA checked :
            IF ~Head(fs).accepts THEN Ok(checked, FALSE)
            ELSE CheckFilters(checked, Tail(fs)))

\* a variant that calls every check and combines the answers afterwards
RECURSIVE CheckEvery(_, _, _)
CheckEvery(st, fs, ok) ==
    IF fs = <<>> THEN Ok(st, ok)
    ELSE CheckEvery(Emit(st, "check", Head(fs).name, 0), Tail(fs),
                    ok /\ Head(fs).accepts)

passes_filters_eager(st) == CheckEvery(st, st.self._filters, TRUE)

passes_filters(st) == CheckFilters(st, st.self._filters)

RECURSIVE RemoveEach(_, _)
RemoveEach(st, types) ==
    IF types = <<>> THEN st
    ELSE LET path == report_path(st.self, Head(types))
         IN RemoveEach(IF st.files[path].exists
                       THEN [st EXCEPT !.files[path] = NoFile]
                       ELSE st,
                       Tail(types))

\* a variant whose tuple of report types lacks the price export
clear_reports_only(st) ==
    Ok(RemoveEach(st, <<"income", "cashflow", "balancesheet", "ratios">>), None)

clear_cached_files(st) == Ok(RemoveEach(st, report_types), None)

(***************************************************************************)
(* get_summary_info.                                                       *)
(***************************************************************************)
\* Series.quantile(q=0.75, interpolation='linear') over the rows that are
\* not missing
Quantile75(s) ==
    LET o == SortInts([i \in 1..Len(DropNa(s)) |-> DropNa(s)[i].v])
        h == (Len(o) - 1) * 3
        lo == (h \div 4) + 1
    IN IF o = <<>> THEN NaN
       ELSE IF h % 4 = 0 THEN Num(o[lo])
       ELSE Num(o[lo] + Quot((h % 4) * (o[lo + 1] - o[lo]), 4))

\* the rows of the try block, each evaluated in order; format() keeps two
\* decimals, which the hundredths already are
SummaryRows(st, g, a, b, c, d) ==
    LET eps == Cur(st, "earnings-per-share")
        df == R(st)
        head == << <<"Growth rates", "%">>,
                   <<"average growth", FScale(g, 100)>>,
                   <<"estimated eps growth", FScale(a, 100)>>,
                   <<"estimated revenue growth", FScale(b, 100)>>,
                   <<"estimated bookvalue growth", FScale(c, 100)>>,
                   <<"estimated operational cashflow growth", FScale(d, 100)>>,
                   <<"", "">>,
                   <<"currency", currency_of(df)>>,
                   <<"eps TTM", df.cols[eps][Len(df.index)]>> >>
        pe == df.cols[Col("pe")]
    IN IF ~Has(df, eps) THEN Raise(st, "KeyError")
       ELSE IF ~Has(df, Col("pe")) THEN Ok(st, head)
       ELSE Ok(st, head \o << <<"min p/e", PyMinSeq(pe)>>,
                              <<"max p/e", PyMax(pe)>>,
                              <<"0.75 perc p/e", Quantile75(pe)>>,
                              <<"", "">> >>)

SummaryInfos(st) ==
    Bind(estimated_growth(st), LAMBDA g :
    IF g.exc # "none" THEN g ELSE
    Bind(estimated_eps_growth(g.st), LAMBDA a :
    IF a.exc # "none" THEN a ELSE
    Bind(estimated_revenue_growth(a.st), LAMBDA b :
    IF b.exc # "none" THEN b ELSE
    Bind(estimated_bookvalue_growth(b.st), LAMBDA c :
    IF c.exc # "none" THEN c ELSE
    Bind(estimated_operational_cashflow_growth(c.st), LAMBDA d :
    IF d.exc # "none" THEN d
    ELSE SummaryRows(d.st, g.val, a.val, b.val, c.val, d.val))))))

get_summary_info(st) ==
    Bind(SummaryInfos(st), LAMBDA r :
        IF r.exc = "KeyError"
        THEN Ok(LogError(r.st, "Field not found {}", "KeyError"), <<>>)
        ELSE r)

(***************************************************************************)
(* get_summary_row and the projections it reads.                           *)
(***************************************************************************)
n_projection_years == 10

\* target_yield = 0.15, in hundredths
target_yield == 15

\* x * y and x ** n on hundredths
FMul(x, y) == IF x.nan \/ y.nan THEN NaN ELSE Num(Quot(x.v * y.v, 100))

RECURSIVE FPow(_, _)
FPow(x, n) == IF n = 0 THEN Num(100) ELSE FMul(x, FPow(x, n - 1))

\* sum(e * pow(1 + g, i) for i in range(0, n))
RECURSIVE Annuity(_, _, _)
Annuity(e, g, n) ==
    IF n = 0 THEN Num(0)
    ELSE FAdd(Annuity(e, g, n - 1), FMul(e, FPow(FAdd(Num(100), g), n - 1)))

\* the first cell of the first row of a ratios export, without its title
\* prefix; an empty file has no row and leaves the name None
NameIn(content) ==
    IF Export(content).status = "empty" THEN None ELSE Some("company")

\* the company_name property opens the cached ratios file, downloaded or not
company_name(st) ==
    IF ~st.self._company_name.none THEN Ok(st, st.self._company_name.val)
    ELSE IF ~st.files[report_path(st.self, "ratios")].exists
         THEN Raise(st, "FileNotFoundError")
    ELSE Bind(NameIn(st.files[report_path(st.self, "ratios")].content), LAMBDA n :
            IF n.none THEN Ok(st, None)
            ELSE Ok([st EXCEPT !.self._company_name = n], n.val))

\* self.historic_prices.iloc[-1]['Close']
current_price(st) ==
    Bind(historic_prices(st), LAMBDA h :
        IF h.exc # "none" THEN h
        ELSE IF h.val.index = <<>> THEN Raise(h.st, "IndexError")
        ELSE IF ~Has(h.val, Col("Close")) THEN Raise(h.st, "KeyError")
        ELSE Ok(h.st, h.val.cols[Col("Close")][Len(h.val.index)]))

\* self.ratios['earnings-per-share-%s' % self.currency].iloc[-1]
eps_ttm(st) ==
    Bind(ratios(st), LAMBDA r :
        IF r.exc # "none" THEN r
        ELSE IF ~Has(r.val, CurCol("earnings-per-share", currency_of(r.val)))
             THEN Raise(r.st, "KeyError")
        ELSE IF r.val.index = <<>> THEN Raise(r.st, "IndexError")
        ELSE Ok(r.st, r.val.cols[CurCol("earnings-per-share", currency_of(r.val))]
                                [Len(r.val.index)]))

get_estimated_eps(st, nyears) ==
    Bind(eps_ttm(st), LAMBDA e :
        IF e.exc # "none" THEN e
        ELSE Bind(estimated_growth(e.st), LAMBDA g :
                IF g.exc # "none" THEN g
                ELSE Ok(g.st, FMul(e.val, FPow(FAdd(Num(100), g.val), nyears)))))

get_price_projection(st, nyears) ==
    Bind(get_estimated_eps(st, nyears), LAMBDA e :
        IF e.exc # "none" THEN e
        ELSE Bind(target_pe(e.st), LAMBDA t :
                IF t.exc # "none" THEN t
                ELSE Ok(t.st, FMul(e.val, t.val))))

price_projection(st) == get_price_projection(st, n_projection_years)

\* np.median of the last dividend, 0. without a dividends column
expected_dividends(st) ==
    IF ~st.self._expected_dividends.none THEN Ok(st, st.self._expected_dividends.val)
    ELSE Bind(ratios(st), LAMBDA r :
            IF r.exc # "none" THEN r
            ELSE Bind(IF Has(r.val, CurCol("dividends", currency_of(r.val)))
                      THEN r.val.cols[CurCol("dividends", currency_of(r.val))]
                                     [Len(r.val.index)]
                      ELSE Num(0),
                      LAMBDA v :
                         Ok([r.st EXCEPT !.self._expected_dividends = Some(v)], v)))

projected_dividends_growth(st) ==
    IF ~st.self._projected_dividends_growth.none
    THEN Ok(st, st.self._projected_dividends_growth.val)
    ELSE Bind(currency(st), LAMBDA c :
            IF c.exc # "none" THEN c
            ELSE IF ~has_dividends(c.st)
                 THEN Ok([c.st EXCEPT !.self._projected_dividends_growth = Some(Num(0))],
                         Num(0))
            ELSE Bind(IF ~Has(R(c.st), Col("dividends-ps-growth"))
                      THEN add_dividends_ps_growth(c.st)
                      ELSE Ok(c.st, None),
                      LAMBDA a :
                         IF a.exc # "none" THEN a
                         ELSE Bind(_get_average_growth_rate(a.st, Col("dividends-ps-growth")),
                                   LAMBDA g :
                                      IF g.exc # "none" THEN g
                                      ELSE Ok([g.st EXCEPT
                                                 !.self._projected_dividends_growth =
                                                     Some(g.val)], g.val))))

projected_dividend_earnings(st) ==
    Bind(currency(st), LAMBDA c :
        IF c.exc # "none" THEN c
        ELSE IF ~has_dividends(c.st) THEN Ok(c.st, Num(0))
        ELSE Bind(expected_dividends(c.st), LAMBDA e :
                IF e.exc # "none" THEN e
                ELSE Bind(projected_dividends_growth(e.st), LAMBDA g :
                        IF g.exc # "none" THEN g
                        ELSE Ok(g.st, Annuity(e.val, g.val, n_projection_years)))))

get_target_price(st, nyears, yield) ==
    Bind(get_price_projection(st, nyears), LAMBDA p :
        IF p.exc # "none" THEN p
        ELSE Bind(projected_dividend_earnings(p.st), LAMBDA d :
                IF d.exc # "none" THEN d
                ELSE Ok(d.st, FDiv(FAdd(p.val, d.val),
                                   FPow(Num(100 + yield), nyears)))))

target_price(st) == get_target_price(st, n_projection_years, target_yield)

\* max(self.ratios["pe"])
max_pe(st) ==
    Bind(ratios(st), LAMBDA r :
        IF r.exc # "none" THEN r
        ELSE IF ~Has(r.val, Col("pe")) THEN Raise(r.st, "KeyError")
        ELSE IF r.val.index = <<>> THEN Raise(r.st, "ValueError")
        ELSE Ok(r.st, PyMax(r.val.cols[Col("pe")])))

\* the next element of the list display: evaluated on the state the
\* elements before it left, unless one of them raised
Element(acc, F(_)) ==
    IF acc.exc # "none" THEN acc
    ELSE Bind(F(acc.st), LAMBDA x :
            IF x.exc # "none" THEN x ELSE Ok(x.st, Append(acc.val, x.val)))

\* no try block: whatever an element raises reaches the caller
get_summary_row(st) ==
    Element(Element(Element(Element(Element(Element(Element(Element(Element(Element(
        Ok(st, <<>>),
        LAMBDA s : company_name(s)),
        LAMBDA s : Ok(s, s.self.symbol)),
        LAMBDA s : current_price(s)),
        LAMBDA s : target_price(s)),
        LAMBDA s : eps_ttm(s)),
        LAMBDA s : max_pe(s)),
        LAMBDA s : estimated_growth(s)),
        LAMBDA s : target_pe(s)),
        LAMBDA s : get_estimated_eps(s, n_projection_years)),
        LAMBDA s : price_projection(s))

(***************************************************************************)
(* The state machine.  One Stock object at a time works on the cache       *)
(* directory; constructing a new one drops the old one.  vendor is what    *)
(* the network answers for each kind of export during the run.  client is  *)
(* the part of the interface the run exercises: the reports of one         *)
(* statement kind, the valuation (balance sheet, ratios, prices and what   *)
(* is derived from them) or the filters.  The kinds of different clients   *)
(* share no slot and no file, so a run of one client at a time bounds the  *)
(* exploration without hiding an interaction.  hist counts what the        *)
(* current object has downloaded, parsed and assigned, and last is the     *)
(* outcome of the latest call.                                             *)
(***************************************************************************)
Filter(name, accepts) == [name |-> name, accepts |-> accepts]

FilterLists ==
    {<<>>,
     <<Filter("f1", TRUE), Filter("f2", TRUE)>>,
     <<Filter("f1", TRUE), Filter("f2", FALSE), Filter("f3", TRUE)>>,
     <<Filter("f1", FALSE), Filter("f2", TRUE)>>}

Clients == {"income", "cashflow", "valuation", "screening"}

KindsOf(c) ==
    CASE c = "valuation" -> {"balancesheet", "ratios", "price"}
      [] c = "screening" -> {}
      [] OTHER -> {c}

\* what the vendor serves when nothing is wrong
Served == [income |-> "statement", cashflow |-> "statement",
           balancesheet |-> "bs_full", ratios |-> "ratios_full",
           price |-> "prices"]

\* filter lists are varied in the screening runs, force_update in the runs
\* where the vendor serves the usual exports
FiltersOf(c) == IF c = "screening" THEN FilterLists ELSE {None}

Forces(v) == IF v = Served THEN BOOLEAN ELSE {FALSE}

\* the cache directory a run starts with: what an earlier run left for
\* another symbol, and either nothing or all five exports for this one
OtherSymbol == "BBB"
StockSymbol == "AAA"

Seeded(content) == [exists |-> TRUE, mtime |-> 0, content |-> content]

\* Stock.__init__
NewStock(symbol, force_update, filters) ==
    [symbol |-> symbol, force_update |-> force_update,
     _income |-> None, _cashflow |-> None, _balancesheet |-> None,
     _ratios |-> None, _historic_prices |-> None,
     _filters |-> IF filters = None THEN <<>> ELSE filters,
     _target_pe |-> None, _estimated_growth |-> None,
     _company_name |-> None, _expected_dividends |-> None,
     _projected_dividends_growth |-> None,
     error_log |-> <<>>]

NoHist == [download |-> [k \in Kinds |-> 0],
           parse |-> [k \in Kinds |-> 0],
           assign |-> [k \in Kinds |-> 0],
           setter |-> FALSE]

NoLast == [op |-> "__init__", exc |-> "none", val |-> None, ev |-> <<>>]

\* the usual exports, or one kind answered by another export or by a
\* failed request
Vendors(kinds) ==
    {Served} \cup
    {[Served EXCEPT ![k] = x] : <<k, x>> \in
        UNION {{k} \X (Exports(k) \cup {"fail"}) : k \in kinds}}

Start == [self |-> self, files |-> files, hist |-> hist, now |-> now,
          net |-> vendor, ev |-> <<>>]

Commit(op, r) ==
    /\ self' = r.st.self
    /\ files' = r.st.files
    /\ hist' = r.st.hist
    /\ last' = [op |-> op, exc |-> r.exc, val |-> r.val, ev |-> r.st.ev]
    /\ UNCHANGED <<now, vendor, client>>

Init ==
    /\ now = 0
    /\ client \in Clients
    /\ vendor \in Vendors(KindsOf(client))
    /\ \E seeded \in (IF client = "valuation" THEN {FALSE} ELSE BOOLEAN) :
          files = [p \in Symbols \X Kinds |->
                      IF p[1] = OtherSymbol /\ p[2] \in {"ratios", "price"}
                      THEN Seeded(Served[p[2]])
                      ELSE IF p[1] = StockSymbol /\ seeded THEN Seeded(Served[p[2]])
                      ELSE NoFile]
    /\ \E f \in Forces(vendor), fl \in FiltersOf(client) :
          self = NewStock(StockSymbol, f, fl)
    /\ hist = NoHist
    /\ last = NoLast

Construct ==
    \E f \in Forces(vendor), fl \in FiltersOf(client) :
        /\ self' = NewStock(StockSymbol, f, fl)
        /\ hist' = NoHist
        /\ last' = NoLast
        /\ UNCHANGED <<now, files, vendor, client>>

Income == client = "income" /\ Commit("income", income(Start))

Cashflow == client = "cashflow" /\ Commit("cashflow", cashflow(Start))

Balancesheet == client = "valuation" /\ Commit("balancesheet", balancesheet(Start))

Ratios == client = "valuation" /\ Commit("ratios", ratios(Start))

HistoricPrices ==
    client = "valuation" /\ Commit("historic_prices", historic_prices(Start))

TargetPe == client = "valuation" /\ Commit("target_pe", target_pe(Start))

SetTargetPe ==
    /\ client = "valuation"
    /\ self._target_pe.none
    /\ Commit("set_target_pe", set_target_pe(Start, Num(1500)))

\* r is what get_summary_info returns; the length of the log is bounded
Bounded(op, r) ==
    /\ Len(r.st.self.error_log) <= MaxLog \/ r.st.self.error_log = self.error_log
    /\ Commit(op, r)

GetSummaryInfo ==
    client = "valuation" /\ Bounded("get_summary_info", get_summary_info(Start))

GetSummaryRow ==
    client = "valuation" /\ Commit("get_summary_row", get_summary_row(Start))

PassesFilters == client = "screening" /\ Commit("passes_filters", passes_filters(Start))

ClearCachedFiles ==
    client # "valuation" /\ Commit("clear_cached_files", clear_cached_files(Start))

\* time passes, half a report lifetime at a time
Tick ==
    /\ now < MaxTicks * (ReportLifetime \div 2)
    /\ now' = now + (ReportLifetime \div 2)
    /\ UNCHANGED <<files, vendor, client, self, hist, last>>

Next ==
    \/ Construct
    \/ Income
    \/ Cashflow
    \/ Balancesheet
    \/ Ratios
    \/ HistoricPrices
    \/ TargetPe
    \/ SetTargetPe
    \/ GetSummaryInfo
    \/ GetSummaryRow
    \/ PassesFilters
    \/ ClearCachedFiles
    \/ Tick

Spec == Init /\ [][Next]_vars

(***************************************************************************)
(* Properties.  last is the outcome of the latest call and last.ev what    *)
(* that call did, in order; a step that leaves the clock alone is a call   *)
(* or a construction.                                                      *)
(***************************************************************************)
Lifetime(k) == IF k = "price" THEN PriceLifetime ELSE ReportLifetime

IsPrefix(s, t) == Len(s) <= Len(t) /\ SubSeq(t, 1, Len(s)) = s

\* the positions of last.ev (or of any trace) where the call did e on kind k
Did(ev, e, k) == {i \in DOMAIN ev : ev[i].e = e /\ ev[i].k = k}

PathOf(k) == <<StockSymbol, k>>

\* the accessor that loads kind k
AccessorOf(k) == IF k = "price" THEN "historic_prices" ELSE k

\* C1: cache expiry.  A file is never parsed at an age that has reached the
\* lifetime of its kind: an expired file is fetched again first, so that
\* what is parsed is younger than the lifetime.
C1_ExpiredNeverParsed ==
    \A i \in DOMAIN last.ev :
        last.ev[i].e = "parse" => last.ev[i].a < Lifetime(last.ev[i].k)

\* C2: cache reuse.  A call that starts while the file of a kind exists, is
\* younger than the kind's lifetime and the object was built with
\* force_update false, downloads nothing of that kind.
C2_FreshFileNotDownloaded ==
    [][\A k \in Kinds :
          (/\ now' = now
           /\ files[PathOf(k)].exists
           /\ now - files[PathOf(k)].mtime < Lifetime(k)
           /\ ~self'.force_update)
          => Did(last'.ev, "download", k) = {}]_vars

\* a call has parsed a file written earlier, still within its lifetime,
\* without downloading that kind
C2_Witness ==
    \E k \in Kinds :
        /\ ~self.force_update
        /\ Did(last.ev, "download", k) = {}
        /\ \E i \in Did(last.ev, "parse", k) :
              last.ev[i].a > 0 /\ last.ev[i].a < Lifetime(k)

\* C3: force refresh.  On an object built with force_update = True, the
\* first parse of a kind comes after a download of that kind in the same
\* call, whether or not a file was there.
C3_ForcedFirstLoadDownloads ==
    self.force_update =>
        \A i \in DOMAIN last.ev :
            (last.ev[i].e = "parse" /\ hist.parse[last.ev[i].k] = 1)
            => \E j \in 1..(i - 1) :
                  last.ev[j].e = "download" /\ last.ev[j].k = last.ev[i].k

\* an entry names kind k when the kind was formatted into it, or when it is
\* the literal about price data
Names(entry, k) ==
    \/ entry.arg = k
    \/ k = "price" /\ entry.msg = "Unable to load price data"

\* C4: a parse failure is contained.  When the accessor of a kind, price
\* included, parses an export that is empty or malformed, it raises nothing,
\* returns an empty table and appends exactly one entry that names the kind.
C4_ParseFailureContained ==
    [][\A k \in Kinds :
          (/\ now' = now
           /\ last'.op = AccessorOf(k)
           /\ Did(last'.ev, "parse", k) # {}
           /\ files'[PathOf(k)].content \in {"empty", "malformed"})
          => /\ last'.exc = "none"
             /\ IsEmpty(last'.val)
             /\ IsPrefix(self.error_log, self'.error_log)
             /\ Cardinality({i \in (Len(self.error_log) + 1)..Len(self'.error_log) :
                                Names(self'.error_log[i], k)}) = 1]_vars

\* C5: a derivation failure is contained.  The first access of ratios
\* through its accessor never raises; it returns either the fully derived
\* table or an empty table together with a new entry in the error log.
C5_DerivationFailureContained ==
    [][(/\ now' = now
        /\ last'.op = "ratios"
        /\ Did(last'.ev, "assign", "ratios") # {})
       => /\ last'.exc = "none"
          /\ \/ Has(last'.val, Col("dividends-ps-growth"))
             \/ /\ IsEmpty(last'.val)
                /\ Len(self'.error_log) > Len(self.error_log)]_vars

\* C6: memoization.  On one object every kind is downloaded at most once,
\* parsed at most once and its slot assigned at most once, whatever the
\* accessors called and their order.
C6_AtMostOnce ==
    \A k \in Kinds :
        hist.download[k] <= 1 /\ hist.parse[k] <= 1 /\ hist.assign[k] <= 1

\* C7: the target_pe sentinel.  On an object whose target_pe was not set
\* through the setter, target_pe returns -1 exactly when the derived ratios
\* table has no pe column.
C7_SentinelIffNoPe ==
    (last.op = "target_pe" /\ last.exc = "none" /\ ~hist.setter)
    => (last.val = Num(-100)
        <=> (self._ratios.none \/ ~Has(self._ratios.val, Col("pe"))))

\* the number of filters passes_filters asks: up to the first one that
\* rejects, all of them when none does
Asked(fs) ==
    IF \E i \in DOMAIN fs : ~fs[i].accepts
    THEN CHOOSE i \in DOMAIN fs :
            ~fs[i].accepts /\ \A j \in 1..(i - 1) : fs[j].accepts
    ELSE Len(fs)

\* C8: passes_filters returns True exactly when every registered filter
\* accepts (True for no filters), and the checks it calls are those of the
\* filters up to the first one that rejects, in order, and no other.
C8_AllAcceptShortCircuit ==
    last.op = "passes_filters" =>
        /\ last.exc = "none"
        /\ last.val = (\A i \in DOMAIN self._filters : self._filters[i].accepts)
        /\ last.ev = [i \in 1..Asked(self._filters) |->
                         [e |-> "check", k |-> self._filters[i].name, a |-> 0]]

\* passes_filters answered False and left a later filter unasked
C8_Witness ==
    /\ last.op = "passes_filters"
    /\ last.val = FALSE
    /\ Len(last.ev) >= 1
    /\ Len(last.ev) < Len(self._filters)

\* C9: clear_cached_files completes without error, leaves none of the five
\* files of this symbol behind, whether or not they were there, and leaves
\* the files of other symbols and the object, its memo slots included, as
\* they were.
C9_ClearFrame ==
    [][(now' = now /\ last'.op = "clear_cached_files")
       => /\ last'.exc = "none"
          /\ \A k \in Kinds : ~files'[PathOf(k)].exists
          /\ \A p \in DOMAIN files : p[1] # self.symbol => files'[p] = files[p]
          /\ self' = self]_vars

\* clear_cached_files has removed a file this object had downloaded and
\* loaded; the slot is still filled and the other symbol's files are there
C9_Witness ==
    /\ last.op = "clear_cached_files"
    /\ \E k \in Kinds : hist.download[k] >= 1 /\ ~self[slot[k]].none
    /\ \A k \in Kinds : ~files[PathOf(k)].exists
    /\ \E p \in DOMAIN files : p[1] = OtherSymbol /\ files[p].exists

\* C10: the error log is append-only.  Every step on an object leaves the
\* earlier log as a prefix of the later one; only constructing a new object
\* starts a new log.
C10_LogAppendOnly ==
    [][last'.op = "__init__" \/ IsPrefix(self.error_log, self'.error_log)]_vars

\* a second entry was appended behind the first one
C10_Witness ==
    /\ Len(self.error_log) >= 2
    /\ self.error_log[1].msg = "No {} report found"
    /\ self.error_log[2].msg = "Field not found {}"

\* the columns the summaries read from the derived ratios table
SummaryColumns(df) ==
    {CurCol("earnings-per-share", currency_of(df)), Col("pe"),
     Col("earnings-ps-growth"), Col("revenue-ps-growth"),
     Col("book-value-ps-growth"), Col("operating-cashflow-ps-growth")}

\* C11: the summaries contain missing fields.  When get_summary_row or
\* get_summary_info ends on a derived ratios table that lacks a column the
\* summary reads, the call raises nothing, returns an empty summary and has
\* appended an entry to the error log.
C11_MissingFieldContained ==
    [][(/\ now' = now
        /\ last'.op \in {"get_summary_row", "get_summary_info"}
        /\ ~self'._ratios.none
        /\ \E c \in SummaryColumns(self'._ratios.val) :
              ~Has(self'._ratios.val, c))
       => /\ last'.exc = "none"
          /\ last'.val = <<>>
          /\ Len(self'.error_log) > Len(self.error_log)]_vars

\* C12: the dividend growth step.  When a first access of ratios has run
\* the pipeline to its end on a non-empty table, dividends-ps-growth is the
\* period-over-period change of the dividends column if the table has one,
\* and the table has no dividends-ps-growth column if it has none.
C12_DividendGrowth ==
    (/\ last.op = "ratios"
     /\ last.exc = "none"
     /\ Did(last.ev, "assign", "ratios") # {}
     /\ ~IsEmpty(last.val))
    => IF Has(last.val, CurCol("dividends", currency_of(last.val)))
       THEN /\ Has(last.val, Col("dividends-ps-growth"))
            /\ last.val.cols[Col("dividends-ps-growth")] =
                  pct_change(last.val.cols[CurCol("dividends", currency_of(last.val))])
       ELSE ~Has(last.val, Col("dividends-ps-growth"))

\* the columns the steps of the pipeline add to the table
DerivedColumns(df) ==
    {Col("book-value-ps-growth"), Col("earnings-ps-growth"),
     CurCol("revenue-per-share", currency_of(df)), Col("revenue-ps-growth"),
     CurCol("operating-cashflow-per-share", currency_of(df)),
     Col("operating-cashflow-ps-growth"),
     Col("long-term-debt"), Col("long-term-debt-ps-growth"), Col("long-term-debt-ps"),
     Col("short-term-debt"), Col("short-term-debt-ps-growth"),
     Col("short-term-debt-ps"),
     CurCol("total-debt", currency_of(df)),
     CurCol("total-debt-per-share", currency_of(df)), Col("total-debt-growth"),
     Col("debt-per-earnings"), Col("debt-per-bookvalue"),
     Col("pe"), Col("dividends-ps-growth")}

\* C13: all-or-nothing derivation.  Whenever the ratios accessor returns a
\* table that is not empty, the table carries the columns of every step of
\* the pipeline, on a second access after a failed first one too.
C13_AllOrNothing ==
    (last.op = "ratios" /\ last.exc = "none" /\ ~IsEmpty(last.val))
    => \A c \in DerivedColumns(last.val) : Has(last.val, c)

====
